---- MODULE Spec2Model ----
(***************************************************************************)
(* go-jira-scraper: the resilient request client (pkg/jira/client.go), the *)
(* dual-keyed disk cache (pkg/cache/disk.go) and the sync orchestrator     *)
(* (pkg/scraper/scraper.go), as three state machines over one state.       *)
(*                                                                         *)
(*   SpecReq    one doRequest call, one action per loop iteration          *)
(*   SpecCache  the cache operations over the by_id / by_key directories   *)
(*   SpecScrape ScrapeProject runs: enumerate, plan, fetch, summarize      *)
(***************************************************************************)
EXTENDS Integers, Sequences, FiniteSets, TLC

VARIABLES
    \* ---- doRequestWithRetry (client.go 49-138) ----
    rpc,          \* position: "idle", "loop" (top of the for loop), "done"
    urlValid,     \* whether http.NewRequest accepts the method and URL
    attempt,      \* the loop variable
    lastErr,      \* the local lastErr
    result,       \* what the call returned
    kinds,        \* the kind of outcome of each HTTP attempt issued so far
    lastOutcome,  \* the outcome of the most recent HTTP attempt
    sleeps,       \* number of time.Sleep calls made by the call
    waitTime,     \* the duration passed to the most recent time.Sleep
    \* ---- DiskCache (disk.go) ----
    dirs,         \* which of the directories by_id and by_key exist
    by_id,        \* by_id/<id>.json: the file of each id
    by_key,       \* by_key/<key>.json: the id whose file the symlink names, or NoLink
    clock,        \* the wall clock time.Now() reads
    lastWrite,    \* the most recent WriteIssue call and what it returned
    latest,       \* per key, the id of the issue last written with success under it
    okIds,        \* the ids whose most recent WriteIssue call returned success
    \* ---- Client and Scraper (client.go, scraper.go) ----
    batchSize,    \* Client.batchSize
    spc,          \* where ScrapeProject stands: idle, enumerate, plan, fetch, done
    config,       \* Scraper.config: FullSync and Limit
    startAt,      \* GetAllIssuesInProject: the offset of the next page
    allKeys,      \* GetAllIssuesInProject: the keys accumulated so far
    searches,     \* the Search calls of this run
    issueKeys,    \* the key list GetAllIssuesInProject returned
    toFetch,      \* the keys the plan phase scheduled
    idx,          \* the position of the fetch loop in toFetch
    res,          \* the ScrapeResult being accumulated
    ret,          \* what ScrapeProject returned
    fetched,      \* the keys passed to GetIssueWithHistory in this run, in order
    searchErr,    \* a Search call of this run returned an error
    existsAtStart,\* the keys for which Exists held when the run started
    filesAtStart, \* the ids that had a by_id file when the run started
    failures,     \* the fetch and write failures of this run
    runWrites,    \* the WriteIssue calls of this run
    searchLog,    \* the Search calls GetAllIssuesInProject made and their answers
    events        \* the fetches, cache writes and pauses of the fetch phase, in order

reqVars == <<rpc, urlValid, attempt, lastErr, result, kinds, lastOutcome,
             sleeps, waitTime>>

cacheVars == <<dirs, by_id, by_key, clock, lastWrite, latest, okIds>>

scrapeVars == <<batchSize, spc, config, startAt, allKeys, searches, issueKeys,
                toFetch, idx, res, ret, fetched, searchErr, existsAtStart, filesAtStart,
                failures, runWrites, searchLog, events>>

vars == <<reqVars, cacheVars, scrapeVars>>

Nil == "nil"

\* a nil error, no outcome yet, no result yet
NilErr == [msg |-> Nil, cause |-> 0]
NoOutcome == [kind |-> "none", cause |-> 0, status |-> 0, body |-> 0, retryAfter |-> <<>>]
NoResult == [err |-> "pending", status |-> 0, body |-> 0, cause |-> NilErr]

(***************************************************************************)
(* Bounds of the model.                                                    *)
(***************************************************************************)
NumCauses == 2      \* distinct underlying transport errors
NumBodies == 2      \* distinct response bodies
MaxClock == 1       \* the wall clock runs from 0 to MaxClock
MaxPageLen == 2     \* the issues on one page of search results
MaxSearches == 2    \* the Search calls of one run
MaxEnum == 3        \* the keys one run enumerates

Causes == 1..NumCauses
Bodies == 1..NumBodies

(***************************************************************************)
(* int64 arithmetic.  TLC's integers are 32 bits wide, a time.Duration is  *)
(* an int64 count of nanoseconds, so an int64 is a little-endian sequence  *)
(* of 4 limbs of 16 bits (two's complement); Atoi accumulates in 6 limbs   *)
(* so that its range check can see the overflow.                           *)
(***************************************************************************)
Radix == 2^16
Int64Limbs == 64 \div 16
WideLimbs == 96 \div 16

Zero(k) == [i \in 1..k |-> 0]

\* 0 <= n < 2^31 as k >= 2 limbs
Nat2Limbs(n, k) == <<n % Radix, n \div Radix>> \o Zero(k - 2)

\* limbs i.. of x * m + carry
RECURSIVE MulFrom(_, _, _, _)
MulFrom(x, m, i, carry) ==
    IF i > Len(x) THEN <<>>
    ELSE LET t == x[i] * m + carry
         IN  <<t % Radix>> \o MulFrom(x, m, i + 1, t \div Radix)

\* x * m truncated to Len(x) limbs (Go's wrapping multiplication), 0 <= m <= 32000
MulLimbs(x, m) == MulFrom(x, m, 1, 0)

\* limbs i.. of x + carry
RECURSIVE AddFrom(_, _, _)
AddFrom(x, i, carry) ==
    IF i > Len(x) THEN <<>>
    ELSE LET t == x[i] + carry
         IN  <<t % Radix>> \o AddFrom(x, i + 1, t \div Radix)

\* x + d truncated to Len(x) limbs, 0 <= d < Radix
AddLimbs(x, d) == AddFrom(x, 1, d)

Low(x, k) == SubSeq(x, 1, k)
Extend(x, k) == x \o Zero(k - Len(x))
IsZero(x) == \A i \in 1..Len(x) : x[i] = 0
IsNegative(x) == x[Len(x)] >= Radix \div 2

\* time.Second = 1000 * 1000 * 1000 nanoseconds = 31250 * 32000
SecondFactors == <<31250, 32000>>

\* the Duration x * time.Second, in as many limbs as x has
MulSecond(x) == MulLimbs(MulLimbs(x, SecondFactors[1]), SecondFactors[2])


(***************************************************************************)
(* strconv.Atoi on the header value, a sequence of one-character strings.  *)
(* It accepts an optional sign followed by one or more decimal digits and  *)
(* reports a range error when the value does not fit an int (64 bits).     *)
(***************************************************************************)
Digits == {"0", "1", "2", "3", "4", "5", "6", "7", "8", "9"}

DigitValue(ch) ==
    CASE ch = "0" -> 0 [] ch = "1" -> 1 [] ch = "2" -> 2 [] ch = "3" -> 3
      [] ch = "4" -> 4 [] ch = "5" -> 5 [] ch = "6" -> 6 [] ch = "7" -> 7
      [] ch = "8" -> 8 [] ch = "9" -> 9

\* the magnitude of the digits i.. of ds appended to acc, in Len(acc) limbs
RECURSIVE MagnitudeFrom(_, _, _)
MagnitudeFrom(ds, i, acc) ==
    IF i > Len(ds) THEN acc
    \* (the singleton set has the accumulator evaluated before the next digit)
    ELSE LET next == {AddLimbs(MulLimbs(acc, 10), DigitValue(ds[i]))}
         IN  CHOOSE m \in {MagnitudeFrom(ds, i + 1, n) : n \in next} : TRUE

\* the magnitude of a digit string, in WideLimbs limbs
Magnitude(ds) == MagnitudeFrom(ds, 1, Zero(WideLimbs))

\* 2^63 in WideLimbs limbs
MinInt64Magnitude == [i \in 1..WideLimbs |-> IF i = Int64Limbs THEN Radix \div 2 ELSE 0]

Atoi(s) ==
    LET signed == Len(s) > 0 /\ s[1] \in {"+", "-"}
        neg == Len(s) > 0 /\ s[1] = "-"
        ds == IF signed THEN Tail(s) ELSE s
        syntaxOK == Len(ds) > 0 /\ \A i \in 1..Len(ds) : ds[i] \in Digits
        mag == Magnitude(ds)
        inRange == \/ /\ \A i \in (Int64Limbs + 1)..WideLimbs : mag[i] = 0
                      /\ mag[Int64Limbs] < Radix \div 2
                   \/ neg /\ mag = MinInt64Magnitude
    IN  IF syntaxOK /\ inRange
        THEN [err |-> FALSE, neg |-> neg, mag |-> Low(mag, Int64Limbs)]
        ELSE [err |-> TRUE, neg |-> FALSE, mag |-> Zero(Int64Limbs)]

(***************************************************************************)
(* The outcomes of one HTTP attempt: httpClient.Do fails, io.ReadAll       *)
(* fails, or a response with a status, a body and a Retry-After header     *)
(* ("" when the header is absent).  The header is read for 429 only.       *)
(***************************************************************************)
Statuses == {200, 299, 300, 404, 429, 500}

RetryAfterValues ==
    { <<>>,                                   \* absent
      <<"a", "b", "c">>,                      \* not a number
      <<"0">>, <<"-", "3">>,                  \* zero, negative
      <<"1">>, <<"5">>, <<"+", "7">>,         \* positive
      <<"9","2","2","3","3","7","2","0","3","7">>,
      <<"3","6","0","2","8","7","9","7","0","1","8","9","6","3","9","6","8">>,
      <<"9","9","9","9","9","9","9","9","9","9","9","9","9","9","9","9","9","9","9","9">> }

Outcomes ==
    {[kind |-> k, cause |-> c, status |-> 0, body |-> 0, retryAfter |-> <<>>] :
        k \in {"connErr", "readErr"}, c \in Causes}
    \cup
    {[kind |-> "resp", cause |-> 0, status |-> s, body |-> b, retryAfter |-> <<>>] :
        s \in Statuses \ {429}, b \in Bodies}
    \cup
    {[kind |-> "resp", cause |-> 0, status |-> 429, body |-> b, retryAfter |-> h] :
        b \in Bodies, h \in RetryAfterValues}

\* the kind of an outcome, as the request loop branches on it
KindOf(o) ==
    IF o.kind # "resp" THEN o.kind
    ELSE IF o.status >= 200 /\ o.status < 300 THEN "2xx"
    ELSE IF o.status = 429 THEN "429"
    ELSE "other"

(***************************************************************************)
(* doRequest / doRequestWithRetry                                          *)
(***************************************************************************)
MaxRetries == 3

\* the errors the call builds
RequestFailed(c) == [msg |-> "request failed", cause |-> c]
ReadFailed(c) == [msg |-> "failed to read response body", cause |-> c]

ErrCreateRequest ==
    [err |-> "failed to create request", status |-> 0, body |-> 0, cause |-> NilErr]
ErrRateLimit(body) ==
    [err |-> "rate limit max retries exceeded", status |-> 0, body |-> body, cause |-> NilErr]
ErrAPI(status, body) ==
    [err |-> "API returned status", status |-> status, body |-> body, cause |-> NilErr]
ErrMaxRetries(cause) ==
    [err |-> "max retries exceeded", status |-> 0, body |-> 0, cause |-> cause]
Success(body) ==
    [err |-> Nil, status |-> 0, body |-> body, cause |-> NilErr]

\* for attempt := 0; attempt <= maxRetries; attempt++
LoopCondMutant(a) == a <= MaxRetries + 1
LoopCond(a) == a <= MaxRetries

\* if attempt < maxRetries { ... time.Sleep(waitTime) }
MayRetry(a) == a < MaxRetries

\* if attempt >= maxRetries { return nil, rate limit max retries exceeded }
RateLimitGiveUpMutant(a) == a > MaxRetries
RateLimitGiveUp(a) == a >= MaxRetries

\* resp.StatusCode >= 200 && resp.StatusCode < 300
IsSuccessMutant(status) == status = 200
IsSuccess(status) == status >= 200 /\ status < 300

\* resp.StatusCode == 429
IsRateLimitedMutant(status) == status = 429 \/ status >= 500
IsRateLimited(status) == status = 429

\* time.Duration(1<<uint(attempt+1)) * time.Second
Backoff(a) == MulSecond(Nat2Limbs(2^(a + 1), Int64Limbs))

\* var waitTime time.Duration, set from Retry-After when the header is not
\* empty and strconv.Atoi gives seconds > 0 without an error
HeaderWait(retryAfter) ==
    IF /\ retryAfter # <<>>
       /\ ~Atoi(retryAfter).err
       /\ ~Atoi(retryAfter).neg
       /\ ~IsZero(Atoi(retryAfter).mag)
    THEN MulSecond(Atoi(retryAfter).mag)
    ELSE Zero(Int64Limbs)

\* if waitTime == 0 { waitTime = exponential backoff }
RateLimitWait(retryAfter, a) ==
    IF IsZero(HeaderWait(retryAfter)) THEN Backoff(a) ELSE HeaderWait(retryAfter)

\* lastErr after a failed io.ReadAll
LastErrAfterReadMutant(prev, c) == prev
LastErrAfterRead(prev, c) == ReadFailed(c)

Sleep(d) ==
    /\ sleeps' = sleeps + 1
    /\ waitTime' = d

NoSleep == UNCHANGED <<sleeps, waitTime>>

Issued(o) ==
    /\ kinds' = Append(kinds, KindOf(o))
    /\ lastOutcome' = o

InitReq ==
    /\ rpc = "idle"
    /\ urlValid = TRUE
    /\ attempt = 0
    /\ lastErr = NilErr
    /\ result = NoResult
    /\ kinds = <<>>
    /\ lastOutcome = NoOutcome
    /\ sleeps = 0
    /\ waitTime = Zero(Int64Limbs)

\* doRequest: enter doRequestWithRetry with maxRetries = 3
doRequest ==
    /\ rpc = "idle"
    /\ rpc' = "loop"
    /\ urlValid' \in BOOLEAN
    /\ attempt' = 0
    /\ lastErr' = NilErr
    /\ UNCHANGED <<result, kinds, lastOutcome, sleeps, waitTime>>
    /\ UNCHANGED <<cacheVars, scrapeVars>>

InLoop == rpc = "loop" /\ LoopCond(attempt)

\* http.NewRequest fails: return at once, nothing was sent
NewRequestError ==
    /\ InLoop
    /\ ~urlValid
    /\ result' = ErrCreateRequest
    /\ rpc' = "done"
    /\ UNCHANGED <<urlValid, attempt, lastErr, kinds, lastOutcome, sleeps, waitTime>>
    /\ UNCHANGED <<cacheVars, scrapeVars>>

\* httpClient.Do fails
AttemptConnError(o) ==
    /\ InLoop /\ urlValid
    /\ o.kind = "connErr"
    /\ Issued(o)
    /\ lastErr' = RequestFailed(o.cause)
    /\ IF MayRetry(attempt) THEN Sleep(Backoff(attempt)) ELSE NoSleep
    /\ attempt' = attempt + 1
    /\ UNCHANGED <<rpc, urlValid, result>>
    /\ UNCHANGED <<cacheVars, scrapeVars>>

\* io.ReadAll fails
AttemptReadError(o) ==
    /\ InLoop /\ urlValid
    /\ o.kind = "readErr"
    /\ Issued(o)
    /\ lastErr' = LastErrAfterRead(lastErr, o.cause)
    /\ IF MayRetry(attempt) THEN Sleep(Backoff(attempt)) ELSE NoSleep
    /\ attempt' = attempt + 1
    /\ UNCHANGED <<rpc, urlValid, result>>
    /\ UNCHANGED <<cacheVars, scrapeVars>>

\* a 2xx response: return the body
AttemptSuccess(o) ==
    /\ InLoop /\ urlValid
    /\ o.kind = "resp" /\ IsSuccess(o.status)
    /\ Issued(o)
    /\ result' = Success(o.body)
    /\ rpc' = "done"
    /\ NoSleep
    /\ UNCHANGED <<urlValid, attempt, lastErr>>
    /\ UNCHANGED <<cacheVars, scrapeVars>>

\* a 429 response: give up on the last attempt, else wait and retry
AttemptRateLimited(o) ==
    /\ InLoop /\ urlValid
    /\ o.kind = "resp" /\ ~IsSuccess(o.status) /\ IsRateLimited(o.status)
    /\ Issued(o)
    /\ IF RateLimitGiveUp(attempt)
       THEN /\ result' = ErrRateLimit(o.body)
            /\ rpc' = "done"
            /\ NoSleep
            /\ UNCHANGED attempt
       ELSE /\ Sleep(RateLimitWait(o.retryAfter, attempt))
            /\ attempt' = attempt + 1
            /\ UNCHANGED <<rpc, result>>
    /\ UNCHANGED <<urlValid, lastErr>>
    /\ UNCHANGED <<cacheVars, scrapeVars>>

\* any other status: fail without a retry
AttemptOtherStatus(o) ==
    /\ InLoop /\ urlValid
    /\ o.kind = "resp" /\ ~IsSuccess(o.status) /\ ~IsRateLimited(o.status)
    /\ Issued(o)
    /\ result' = ErrAPI(o.status, o.body)
    /\ rpc' = "done"
    /\ NoSleep
    /\ UNCHANGED <<urlValid, attempt, lastErr>>
    /\ UNCHANGED <<cacheVars, scrapeVars>>

\* the loop ran out: return max retries exceeded wrapping lastErr
MaxRetriesExceeded ==
    /\ rpc = "loop" /\ ~LoopCond(attempt)
    /\ result' = ErrMaxRetries(lastErr)
    /\ rpc' = "done"
    /\ UNCHANGED <<urlValid, attempt, lastErr, kinds, lastOutcome, sleeps, waitTime>>
    /\ UNCHANGED <<cacheVars, scrapeVars>>

NextReq ==
    \/ doRequest
    \/ NewRequestError
    \/ \E o \in Outcomes : AttemptConnError(o)
    \/ \E o \in Outcomes : AttemptReadError(o)
    \/ \E o \in Outcomes : AttemptSuccess(o)
    \/ \E o \in Outcomes : AttemptRateLimited(o)
    \/ \E o \in Outcomes : AttemptOtherStatus(o)
    \/ MaxRetriesExceeded



(***************************************************************************)
(* The disk cache.  An issue is its immutable id and its display key (the  *)
(* rest of the payload is carried along unread).  Keys are sequences of    *)
(* one-character strings.                                                  *)
(***************************************************************************)
Ids == {"10001", "10002"}

Keys == { <<"A", "-", "1">>, <<"A", "-", "2">>, <<"A", "X", "-", "1">> }

Issues == [ID : Ids, Key : Keys]

\* API call durations in nanoseconds
Durations == {1300000}

\* duration.Milliseconds()
Milliseconds(d) == d \div 1000000

FetchedByTag == "go-jira-scraper/0.1.0"

\* &models.CachedIssue{CacheMetadata: ..., JiraData: issue}
CachedIssue(issue, duration, now) ==
    [CacheMetadata |-> [FetchedAt |-> now,
                        FetchedBy |-> FetchedByTag,
                        APICallDurationMS |-> Milliseconds(duration)],
     JiraData |-> issue]

NoCached == CachedIssue([ID |-> "", Key |-> <<>>], 0, 0)

\* json.MarshalIndent: the document with the json names of the struct tags
MarshalIndent(cached) ==
    [_cache_metadata |-> [fetched_at |-> cached.CacheMetadata.FetchedAt,
                          fetched_by |-> cached.CacheMetadata.FetchedBy,
                          api_call_duration_ms |-> cached.CacheMetadata.APICallDurationMS],
     jira_data |-> [id |-> cached.JiraData.ID, key |-> cached.JiraData.Key]]

\* json.Unmarshal into a models.CachedIssue
Unmarshal(doc) ==
    [CacheMetadata |-> [FetchedAt |-> doc._cache_metadata.fetched_at,
                        FetchedBy |-> doc._cache_metadata.fetched_by,
                        APICallDurationMS |-> doc._cache_metadata.api_call_duration_ms],
     JiraData |-> [ID |-> doc.jira_data.id, Key |-> doc.jira_data.key]]

\* a file: absent, a complete JSON document, or cut short by a failed write
NoDoc == MarshalIndent(NoCached)
AbsentFile == [state |-> "absent", doc |-> NoDoc]
PartialFile == [state |-> "partial", doc |-> NoDoc]
JSONFile(doc) == [state |-> "json", doc |-> doc]

NoLink == ""

\* what the operating system may answer to os.WriteFile, os.Remove, os.Symlink
\* (os.Remove is not reached after a failed write; os.Symlink cannot succeed
\* over an entry that os.Remove left in place)
FsOutcomes ==
    {fs \in [write : {"ok", "fail", "partial"}, remove : {"ok", "fail"},
             symlink : {"ok", "fail"}] :
        /\ fs.write # "ok" => (fs.remove = "ok" /\ fs.symlink = "ok")
        /\ fs.remove = "fail" => fs.symlink = "fail"}

\* os.WriteFile(idPath, data, 0644): the file is replaced; a failure leaves it
\* as it was (it could not be opened) or cut short (the write failed)
WriteFileOKMutant(fs) == TRUE
WriteFileOK(fs) == dirs.by_id /\ fs.write = "ok"

WriteFile(id, doc, fs) ==
    IF ~dirs.by_id THEN by_id
    ELSE IF fs.write = "ok" THEN [by_id EXCEPT ![id] = JSONFile(doc)]
    ELSE IF fs.write = "partial" THEN [by_id EXCEPT ![id] = PartialFile]
    ELSE by_id

\* os.Remove(keyPath), its error ignored: the entry is gone unless the call failed
RemoveMutant(links, key, fs) == links
Remove(links, key, fs) ==
    IF links[key] # NoLink /\ fs.remove = "ok"
    THEN [links EXCEPT ![key] = NoLink]
    ELSE links

\* os.Symlink(relPath, keyPath): fails when the entry exists or cannot be made
SymlinkMutant(links, key, id, fs) == [links EXCEPT ![key] = id]
Symlink(links, key, id, fs) ==
    IF dirs.by_key /\ links[key] = NoLink /\ fs.symlink = "ok"
    THEN [links EXCEPT ![key] = id]
    ELSE links

\* the file a path under by_key names: os.Stat and os.ReadFile follow the link
Resolve(key) == IF by_key[key] = NoLink THEN AbsentFile ELSE by_id[by_key[key]]

\* readIssueFile
readIssueFile(file) ==
    IF file.state = "absent"
    THEN [err |-> "issue not found in cache", cached |-> NoCached]
    ELSE IF file.state = "partial"
    THEN [err |-> "failed to unmarshal issue", cached |-> NoCached]
    ELSE [err |-> Nil, cached |-> Unmarshal(file.doc)]

GetIssue(key) == readIssueFile(Resolve(key))

GetIssueByID(id) == readIssueFile(by_id[id])

\* Exists: os.Stat(keyPath) returns no error
Exists(key) == Resolve(key).state # "absent"

\* strings.HasPrefix, strings.HasSuffix, strings.TrimSuffix
HasPrefix(s, prefix) ==
    Len(s) >= Len(prefix) /\ SubSeq(s, 1, Len(prefix)) = prefix

HasSuffix(s, suffix) ==
    Len(s) >= Len(suffix) /\ SubSeq(s, Len(s) - Len(suffix) + 1, Len(s)) = suffix

TrimSuffix(s, suffix) ==
    IF HasSuffix(s, suffix) THEN SubSeq(s, 1, Len(s) - Len(suffix)) ELSE s

DotJSON == <<".", "j", "s", "o", "n">>

\* the byte of a character of a file name
Byte(c) ==
    CASE c = "-" -> 45 [] c = "." -> 46 [] c = "1" -> 49 [] c = "2" -> 50
      [] c = "A" -> 65 [] c = "X" -> 88 [] c = "j" -> 106 [] c = "n" -> 110
      [] c = "o" -> 111 [] c = "s" -> 115

\* file names compare byte by byte, a proper prefix first
RECURSIVE NameLess(_, _)
NameLess(s, t) ==
    IF s = <<>> THEN t # <<>>
    ELSE IF t = <<>> THEN FALSE
    ELSE IF Head(s) # Head(t) THEN Byte(Head(s)) < Byte(Head(t))
    ELSE NameLess(Tail(s), Tail(t))

\* os.ReadDir: the entries of a directory sorted by file name
RECURSIVE SortedNames(_)
SortedNames(names) ==
    IF names = {} THEN <<>>
    ELSE LET first == CHOOSE n \in names : \A m \in names \ {n} : NameLess(n, m)
         IN  <<first>> \o SortedNames(names \ {first})

\* the entries of by_key: one symbolic link <key>.json per key that has one
ReadDir == SortedNames({key \o DotJSON : key \in {k \in Keys : by_key[k] # NoLink}})

\* the loop over the entries: keep the names ending in .json, without it
RECURSIVE KeysOf(_, _, _)
KeysOf(entries, i, keys) ==
    IF i > Len(entries) THEN keys
    ELSE IF HasSuffix(entries[i], DotJSON)
         THEN KeysOf(entries, i + 1, Append(keys, TrimSuffix(entries[i], DotJSON)))
         ELSE KeysOf(entries, i + 1, keys)

\* ListIssues: no key when by_key does not exist, an error when it cannot be
\* read, else the keys of its entries
ListIssues(readable) ==
    IF ~dirs.by_key THEN [keys |-> <<>>, err |-> Nil]
    ELSE IF ~readable THEN [keys |-> <<>>, err |-> "failed to read cache directory"]
    ELSE [keys |-> KeysOf(ReadDir, 1, <<>>), err |-> Nil]

\* project + "-"
ProjectPrefixMutant(project) == project
ProjectPrefix(project) == project \o <<"-">>

\* the loop over allKeys: keep the keys of the project
RECURSIVE FilterProject(_, _, _, _)
FilterProject(allKeys_, i, project, projectKeys) ==
    IF i > Len(allKeys_) THEN projectKeys
    ELSE IF HasPrefix(allKeys_[i], ProjectPrefix(project))
         THEN FilterProject(allKeys_, i + 1, project, Append(projectKeys, allKeys_[i]))
         ELSE FilterProject(allKeys_, i + 1, project, projectKeys)

\* ListIssuesForProject
ListIssuesForProject(project, readable) ==
    LET all == ListIssues(readable)
    IN  IF all.err # Nil THEN [keys |-> <<>>, err |-> all.err]
        ELSE [keys |-> FilterProject(all.keys, 1, project, <<>>), err |-> Nil]

Projects == {<<"A">>, <<"A", "X">>}

NoWrite == [called |-> FALSE, issue |-> [ID |-> "", Key |-> <<>>], err |-> Nil]

\* the cache after a successful Initialize
InitCacheReady ==
    /\ dirs = [by_id |-> TRUE, by_key |-> TRUE]
    /\ by_id = [id \in Ids |-> AbsentFile]
    /\ by_key = [key \in Keys |-> NoLink]
    /\ clock = 0
    /\ lastWrite = NoWrite
    /\ latest = [key \in Keys |-> NoLink]
    /\ okIds = {}

InitCache ==
    /\ dirs = [by_id |-> FALSE, by_key |-> FALSE]
    /\ by_id = [id \in Ids |-> AbsentFile]
    /\ by_key = [key \in Keys |-> NoLink]
    /\ clock = 0
    /\ lastWrite = NoWrite
    /\ latest = [key \in Keys |-> NoLink]
    /\ okIds = {}

\* Initialize: os.MkdirAll of by_id, then of by_key; the first failure returns
Initialize(mkById, mkByKey) ==
    /\ dirs' = [by_id |-> dirs.by_id \/ mkById,
                by_key |-> dirs.by_key \/ (mkById /\ mkByKey)]
    /\ UNCHANGED <<by_id, by_key, clock, lastWrite, latest, okIds>>
    /\ UNCHANGED <<reqVars, scrapeVars>>

\* time passes
Tick ==
    /\ clock < MaxClock
    /\ clock' = clock + 1
    /\ UNCHANGED <<dirs, by_id, by_key, lastWrite, latest, okIds>>
    /\ UNCHANGED <<reqVars, scrapeVars>>

\* WriteIssue(issue, duration): write by_id/<id>.json, return the error if that
\* fails; else remove by_key/<key>.json, link it to the by_id file, return nil
WriteIssue(issue, duration, fs) ==
    LET data == MarshalIndent(CachedIssue(issue, duration, clock))
        ok == WriteFileOK(fs)
    IN  /\ by_id' = WriteFile(issue.ID, data, fs)
        /\ by_key' = IF ok
                     THEN Symlink(Remove(by_key, issue.Key, fs), issue.Key, issue.ID, fs)
                     ELSE by_key
        /\ UNCHANGED <<dirs, clock>>

\* the error WriteIssue returns
WriteIssueErrMutant(fs) ==
    IF WriteFileOK(fs) /\ fs.symlink = "ok" THEN Nil ELSE "failed to write issue file"
WriteIssueErr(fs) == IF WriteFileOK(fs) THEN Nil ELSE "failed to write issue file"

\* the history of the calls, kept for the properties of the cache
Record(issue, fs) ==
    LET ok == WriteIssueErr(fs) = Nil
    IN  /\ lastWrite' = [called |-> TRUE, issue |-> issue, err |-> WriteIssueErr(fs)]
        /\ latest' = IF ok THEN [latest EXCEPT ![issue.Key] = issue.ID] ELSE latest
        /\ okIds' = IF ok THEN okIds \cup {issue.ID} ELSE okIds \ {issue.ID}

\* a caller writes an issue it holds
CallWriteIssue(issue, duration, fs) ==
    /\ WriteIssue(issue, duration, fs)
    /\ Record(issue, fs)
    /\ UNCHANGED <<reqVars, scrapeVars>>

NextCache ==
    \/ \E mkById, mkByKey \in BOOLEAN : Initialize(mkById, mkByKey)
    \/ Tick
    \/ \E issue \in Issues, d \in Durations, fs \in FsOutcomes :
          CallWriteIssue(issue, d, fs)

(***************************************************************************)
(* The client's enumeration (GetAllIssuesInProject) and the orchestrator   *)
(* (ScrapeProject).  A run scrapes project Project; the server answers a   *)
(* Search with an error or with a page of keys of that project and a       *)
(* total, and GetIssueWithHistory with an error or with the issue.         *)
(***************************************************************************)
DefaultBatchSize == 10
MaxBatchSize == 100

Project == <<"A">>

ProjectKeys == {key \in Keys : HasPrefix(key, Project \o <<"-">>)}

\* the issue the server holds under a key
ServerIssue(key) ==
    [ID |-> IF key = <<"A", "-", "1">> THEN "10001" ELSE "10002", Key |-> key]

\* the pages a Search with maxResults = n may return
Pages(n) == UNION {[1..m -> ProjectKeys] : m \in 0..n}

Totals == 0..(MaxSearches * MaxPageLen)

Limits == 0..MaxPageLen

BatchSizes == {0, 1, MaxBatchSize + 1}

ZeroResult == [IssuesProcessed |-> 0, APICalls |-> 0, CacheHits |-> 0, Errors |-> 0]

\* the *ScrapeResult ScrapeProject returns: nil or the summary
NilSummary == [isNil |-> TRUE, summary |-> ZeroResult]
Summary(r) == [isNil |-> FALSE, summary |-> r]

NoReturn == [returned |-> FALSE, err |-> Nil, result |-> NilSummary]

InitScrape ==
    /\ batchSize = DefaultBatchSize
    /\ spc = "idle"
    /\ config = [FullSync |-> FALSE, Limit |-> 0]
    /\ startAt = 0
    /\ allKeys = <<>>
    /\ searches = 0
    /\ issueKeys = <<>>
    /\ toFetch = <<>>
    /\ idx = 1
    /\ res = ZeroResult
    /\ ret = NoReturn
    /\ fetched = <<>>
    /\ searchErr = FALSE
    /\ existsAtStart = {}
    /\ filesAtStart = {}
    /\ failures = 0
    /\ runWrites = 0
    /\ searchLog = <<>>
    /\ events = <<>>

Idle == spc \in {"idle", "done"}

\* size > 0 && size <= 100
ValidBatchSizeMutant(size) == size > 0
ValidBatchSize(size) == size > 0 /\ size <= MaxBatchSize

\* SetBatchSize: a size outside 1..100 is ignored
SetBatchSize(size) ==
    /\ Idle
    /\ batchSize' = IF ValidBatchSize(size) THEN size ELSE batchSize
    /\ UNCHANGED <<spc, config, startAt, allKeys, searches, issueKeys, toFetch, idx,
                   res, ret, fetched, searchErr, existsAtStart, filesAtStart,
                   failures, runWrites, searchLog, events>>
    /\ UNCHANGED <<reqVars, cacheVars>>

\* scraper.New(client, cache, config): a scraper that has not run yet, over
\* the same client and cache
New(fullSync, limit) ==
    /\ Idle
    /\ config' = [FullSync |-> fullSync, Limit |-> limit]
    /\ spc' = "idle"
    /\ startAt' = 0
    /\ allKeys' = <<>>
    /\ searches' = 0
    /\ issueKeys' = <<>>
    /\ toFetch' = <<>>
    /\ idx' = 1
    /\ res' = ZeroResult
    /\ ret' = NoReturn
    /\ fetched' = <<>>
    /\ searchErr' = FALSE
    /\ existsAtStart' = {}
    /\ filesAtStart' = {}
    /\ failures' = 0
    /\ runWrites' = 0
    /\ searchLog' = <<>>
    /\ events' = <<>>
    /\ UNCHANGED batchSize
    /\ UNCHANGED <<reqVars, cacheVars>>

\* ScrapeProject is called: result := &ScrapeResult{}, then GetAllIssuesInProject
\* starts with no keys at offset 0
ScrapeProject ==
    /\ Idle
    /\ spc' = "enumerate"
    /\ startAt' = 0
    /\ allKeys' = <<>>
    /\ searches' = 0
    /\ issueKeys' = <<>>
    /\ toFetch' = <<>>
    /\ idx' = 1
    /\ res' = ZeroResult
    /\ ret' = NoReturn
    /\ fetched' = <<>>
    /\ searchErr' = FALSE
    /\ existsAtStart' = {key \in Keys : Exists(key)}
    /\ filesAtStart' = {id \in Ids : by_id[id] # AbsentFile}
    /\ failures' = 0
    /\ runWrites' = 0
    /\ searchLog' = <<>>
    /\ events' = <<>>
    /\ UNCHANGED <<batchSize, config>>
    /\ UNCHANGED <<reqVars, cacheVars>>

\* limit > 0 && len(allKeys) >= limit
LimitReachedMutant(limit, n) == limit > 0 /\ n > limit
LimitReached(limit, n) == limit > 0 /\ n >= limit

\* the loop over result.Issues: append each key, return once the limit is reached
RECURSIVE AppendIssues(_, _, _, _)
AppendIssues(keys, issues, i, limit) ==
    IF i > Len(issues) THEN [keys |-> keys, limitHit |-> FALSE]
    ELSE IF LimitReached(limit, Len(keys) + 1)
         THEN [keys |-> Append(keys, issues[i]), limitHit |-> TRUE]
         ELSE AppendIssues(Append(keys, issues[i]), issues, i + 1, limit)

\* startAt+len(result.Issues) >= result.Total
LastPageMutant(at, n, total) == n >= total
LastPage(at, n, total) == at + n >= total

\* what GetAllIssuesInProject returns when Search fails: nil, err
SearchErrorReturnMutant(keys) == [keys |-> keys, err |-> FALSE]
SearchErrorReturn(keys) == [keys |-> <<>>, err |-> TRUE]

\* Search returns an error: GetAllIssuesInProject returns it, ScrapeProject
\* returns nil and the error wrapped
SearchFails ==
    /\ spc = "enumerate" /\ searches < MaxSearches
    /\ searches' = searches + 1
    /\ searchErr' = TRUE
    /\ LET r == SearchErrorReturn(allKeys)
       IN  /\ issueKeys' = r.keys
           /\ IF r.err
              THEN /\ ret' = [returned |-> TRUE, err |-> "failed to search issues",
                              result |-> NilSummary]
                   /\ spc' = "done"
              ELSE /\ spc' = "plan"
                   /\ UNCHANGED ret
    /\ UNCHANGED <<batchSize, config, startAt, allKeys, toFetch, idx, res, fetched,
                   existsAtStart, filesAtStart, failures, runWrites, searchLog, events>>
    /\ UNCHANGED <<reqVars, cacheVars>>

\* Search returns a page: collect its keys; return them at the limit or on the
\* last page, else move the offset on and search again
SearchPageStep(issues, total) ==
    /\ spc = "enumerate" /\ searches < MaxSearches
    /\ Len(issues) <= batchSize
    /\ Len(allKeys) + Len(issues) <= MaxEnum
    /\ searches' = searches + 1
    /\ LET app == AppendIssues(allKeys, issues, 1, config.Limit)
       IN  /\ allKeys' = app.keys
           /\ IF app.limitHit \/ LastPage(startAt, Len(issues), total)
              THEN /\ issueKeys' = app.keys
                   /\ spc' = "plan"
                   /\ UNCHANGED startAt
              ELSE /\ startAt' = startAt + Len(issues)
                   /\ UNCHANGED <<issueKeys, spc>>
    /\ UNCHANGED <<batchSize, config, toFetch, idx, res, ret, fetched, searchErr,
                   existsAtStart, filesAtStart, failures, runWrites, events>>
    /\ UNCHANGED <<reqVars, cacheVars>>

SearchPage(issues, total) ==
    /\ SearchPageStep(issues, total)
    /\ UNCHANGED searchLog

\* the same step with the call and its answer kept, for the properties of the
\* enumeration
SearchPageLogged(issues, total) ==
    /\ SearchPageStep(issues, total)
    /\ searchLog' = Append(searchLog, [startAt |-> startAt, maxResults |-> batchSize,
                                       issues |-> issues, total |-> total])

\* the plan phase decides per key: s.config.FullSync || !s.cache.Exists(key)
NeedsFetchMutant(fullSync, exists) == ~exists
NeedsFetch(fullSync, exists) == fullSync \/ ~exists

\* the loop over issueKeys
RECURSIVE PlanFrom(_, _, _, _)
PlanFrom(keys, i, list, hits) ==
    IF i > Len(keys) THEN [toFetch |-> list, CacheHits |-> hits]
    ELSE IF NeedsFetch(config.FullSync, Exists(keys[i]))
         THEN PlanFrom(keys, i + 1, Append(list, keys[i]), hits)
         ELSE PlanFrom(keys, i + 1, list, hits + 1)

Plan ==
    /\ spc = "plan"
    /\ LET p == PlanFrom(issueKeys, 1, <<>>, 0)
       IN  /\ res' = [res EXCEPT !.IssuesProcessed = Len(issueKeys),
                                 !.CacheHits = p.CacheHits]
           /\ toFetch' = p.toFetch
    /\ idx' = 1
    /\ spc' = "fetch"
    /\ UNCHANGED <<batchSize, config, startAt, allKeys, searches, issueKeys, ret,
                   fetched, searchErr, existsAtStart, filesAtStart,
                   failures, runWrites, searchLog, events>>
    /\ UNCHANGED <<reqVars, cacheVars>>

InFetchLoop == spc = "fetch" /\ idx <= Len(toFetch)

\* the steps of the fetch loop as they are recorded in events
Fetch(key) == [op |-> "GetIssueWithHistory", key |-> key]
Write(key) == [op |-> "WriteIssue", key |-> key]
Pause == [op |-> "time.Sleep(500ms)", key |-> <<>>]

\* for i, key := range toFetch: the key of a pass of the loop
KeyAtMutant(list, i) == list[Len(list) - i + 1]
KeyAt(list, i) == list[i]

\* continue: the loop goes on with the next key
AfterErrorMutant(i, n) == n + 1
AfterError(i, n) == i + 1

\* result.Errors++ after a failed GetIssueWithHistory
FetchErrorMutant(r) == [r EXCEPT !.APICalls = @ + 1, !.Errors = @ + 1]
FetchError(r) == [r EXCEPT !.Errors = @ + 1]

\* GetIssueWithHistory fails: result.Errors++; continue
FetchFails ==
    /\ InFetchLoop
    /\ fetched' = Append(fetched, KeyAt(toFetch, idx))
    /\ res' = FetchError(res)
    /\ failures' = failures + 1
    /\ idx' = AfterError(idx, Len(toFetch))
    /\ events' = Append(events, Fetch(KeyAt(toFetch, idx)))
    /\ UNCHANGED <<batchSize, spc, config, startAt, allKeys, searches, issueKeys,
                   toFetch, ret, searchErr, existsAtStart, filesAtStart, runWrites, searchLog>>
    /\ UNCHANGED <<reqVars, cacheVars>>

\* GetIssueWithHistory returns the issue: result.APICalls++, then WriteIssue;
\* if that fails result.Errors++; continue, else pause and go on
FetchSucceeds(duration, fs) ==
    /\ InFetchLoop
    /\ fetched' = Append(fetched, KeyAt(toFetch, idx))
    /\ WriteIssue(ServerIssue(KeyAt(toFetch, idx)), duration, fs)
    /\ runWrites' = runWrites + 1
    /\ IF WriteIssueErr(fs) # Nil
       THEN /\ res' = [res EXCEPT !.APICalls = @ + 1, !.Errors = @ + 1]
            /\ failures' = failures + 1
            /\ idx' = AfterError(idx, Len(toFetch))
            /\ events' = events \o <<Fetch(KeyAt(toFetch, idx)), Write(KeyAt(toFetch, idx))>>
       ELSE /\ res' = [res EXCEPT !.APICalls = @ + 1]
            /\ idx' = idx + 1
            /\ UNCHANGED failures
            /\ events' = events \o <<Fetch(KeyAt(toFetch, idx)), Write(KeyAt(toFetch, idx)), Pause>>
    /\ UNCHANGED <<batchSize, spc, config, startAt, allKeys, searches, issueKeys,
                   toFetch, ret, searchErr, existsAtStart, filesAtStart, searchLog>>
    /\ UNCHANGED <<reqVars, lastWrite, latest, okIds>>

\* the fetch loop is over: return result, nil
Return ==
    /\ spc = "fetch" /\ idx > Len(toFetch)
    /\ ret' = [returned |-> TRUE, err |-> Nil, result |-> Summary(res)]
    /\ spc' = "done"
    /\ UNCHANGED <<batchSize, config, startAt, allKeys, searches, issueKeys, toFetch,
                   idx, res, fetched, searchErr, existsAtStart, filesAtStart,
                   failures, runWrites, searchLog, events>>
    /\ UNCHANGED <<reqVars, cacheVars>>

NextScrape ==
    \/ \E size \in BatchSizes : SetBatchSize(size)
    \/ \E fullSync \in BOOLEAN, limit \in Limits : New(fullSync, limit)
    \/ ScrapeProject
    \/ SearchFails
    \/ \E issues \in Pages(MaxPageLen), total \in Totals : SearchPage(issues, total)
    \/ Plan
    \/ FetchFails
    \/ \E d \in Durations, fs \in FsOutcomes : FetchSucceeds(d, fs)
    \/ Return

\* the enumeration alone, over more limits and batch sizes, each Search kept
EnumLimits == (0 - 1)..MaxPageLen

AllBatchSizes == {0 - 1, 0, 1, MaxPageLen, MaxBatchSize, MaxBatchSize + 1}

NextEnum ==
    \/ \E size \in AllBatchSizes : SetBatchSize(size)
    \/ \E limit \in EnumLimits : New(FALSE, limit)
    \/ ScrapeProject
    \/ SearchFails
    \/ \E issues \in Pages(MaxPageLen), total \in Totals : SearchPageLogged(issues, total)

\* the enumeration with the pause between two pages as a step of its own:
\* Search returns a page; after a page that is not the last and does not
\* reach the limit the loop sleeps, then searches again
SearchPageThenSleep(issues, total) ==
    /\ spc = "enumerate"
    /\ Len(issues) <= batchSize
    /\ Len(allKeys) + Len(issues) <= MaxEnum
    /\ LET app == AppendIssues(allKeys, issues, 1, config.Limit)
       IN  /\ allKeys' = app.keys
           /\ IF app.limitHit \/ LastPage(startAt, Len(issues), total)
              THEN /\ issueKeys' = app.keys
                   /\ spc' = "plan"
                   /\ UNCHANGED startAt
              ELSE /\ startAt' = startAt + Len(issues)
                   /\ spc' = "paginate"
                   /\ UNCHANGED issueKeys
    /\ UNCHANGED <<batchSize, config, searches, toFetch, idx, res, ret, fetched,
                   searchErr, existsAtStart, filesAtStart, failures, runWrites,
                   searchLog, events>>
    /\ UNCHANGED <<reqVars, cacheVars>>

\* time.Sleep(500 * time.Millisecond) between two pages is over
PaginationSleep ==
    /\ spc = "paginate"
    /\ spc' = "enumerate"
    /\ UNCHANGED <<batchSize, config, startAt, allKeys, searches, issueKeys, toFetch,
                   idx, res, ret, fetched, searchErr, existsAtStart, filesAtStart,
                   failures, runWrites, searchLog, events>>
    /\ UNCHANGED <<reqVars, cacheVars>>

\* a Search call returns, with an error or with a page
SearchReturns ==
    \/ SearchFails
    \/ \E issues \in Pages(MaxPageLen), total \in Totals : SearchPageThenSleep(issues, total)

NextEnumLive ==
    \/ \E size \in AllBatchSizes : SetBatchSize(size)
    \/ \E limit \in EnumLimits : New(FALSE, limit)
    \/ ScrapeProject
    \/ SearchReturns
    \/ PaginationSleep

\* what ScrapeIssue returns
ScrapeIssueReturn(err) == [returned |-> TRUE, err |-> err, result |-> NilSummary]

\* ScrapeIssue(key) on a scraper that has not run ScrapeProject yet;
\* GetIssueWithHistory fails: the error is returned
ScrapeIssueFetchFails(key) ==
    /\ spc = "idle"
    /\ events' = <<Fetch(key)>>
    /\ ret' = ScrapeIssueReturn("failed to fetch issue")
    /\ UNCHANGED <<batchSize, spc, config, startAt, allKeys, searches, issueKeys,
                   toFetch, idx, res, fetched, searchErr, existsAtStart, filesAtStart,
                   failures, runWrites, searchLog>>
    /\ UNCHANGED <<reqVars, cacheVars>>

\* ScrapeIssue(key), GetIssueWithHistory returns the issue: WriteIssue, and
\* its error returned if it fails
ScrapeIssueFetched(key, duration, fs) ==
    /\ spc = "idle"
    /\ events' = <<Fetch(key), Write(key)>>
    /\ WriteIssue(ServerIssue(key), duration, fs)
    /\ ret' = ScrapeIssueReturn(IF WriteIssueErr(fs) # Nil
                                THEN "failed to cache issue" ELSE Nil)
    /\ UNCHANGED <<batchSize, spc, config, startAt, allKeys, searches, issueKeys,
                   toFetch, idx, res, fetched, searchErr, existsAtStart, filesAtStart,
                   failures, runWrites, searchLog>>
    /\ UNCHANGED <<reqVars, lastWrite, latest, okIds>>

\* a scraper with the default configuration and both of its entry points
NextIssue ==
    \/ ScrapeProject
    \/ \E issues \in Pages(MaxPageLen), total \in Totals : SearchPage(issues, total)
    \/ Plan
    \/ FetchFails
    \/ \E d \in Durations, fs \in FsOutcomes : FetchSucceeds(d, fs)
    \/ Return
    \/ \E key \in Keys : ScrapeIssueFetchFails(key)
    \/ \E key \in Keys, d \in Durations, fs \in FsOutcomes : ScrapeIssueFetched(key, d, fs)

(***************************************************************************)
(* Properties of doRequest (SpecReq)                                       *)
(***************************************************************************)
\* a client, a cache and a scraper have been constructed
Init == InitReq /\ InitCache /\ InitScrape

SpecReq == Init /\ [][NextReq]_vars

Range(f) == {f[i] : i \in DOMAIN f}

\* n seconds as a Duration, for small n
Seconds(n) == MulSecond(Nat2Limbs(n, Int64Limbs))

\* the header is the decimal notation of an integer > 0 that fits an int
ParsesAsPositive(h) == ~Atoi(h).err /\ ~Atoi(h).neg /\ ~IsZero(Atoi(h).mag)

\* the Duration d is the number of seconds the header h states, as a number
\* of nanoseconds computed without truncation
IsHeaderSeconds(d, h) ==
    /\ ~IsNegative(d)
    /\ Extend(d, WideLimbs) = MulSecond(Extend(Atoi(h).mag, WideLimbs))

\* C1: one doRequest call issues at most 4 HTTP attempts, and every attempt
\* that is retried, transport failure or 429 alike, advances the one attempt
\* counter: at the top of the loop it equals the number of attempts issued.
C1_AtMostFourAttempts ==
    /\ Len(kinds) <= 4
    /\ rpc = "loop" => attempt = Len(kinds)

\* C1 witness: four attempts were issued, failing in both ways
C1_Witness ==
    /\ Len(kinds) = 4
    /\ {"connErr", "readErr", "429"} \subseteq Range(kinds)

\* C7 (as claimed): after a retried attempt a < 3 the wait is the Retry-After
\* value in seconds when the attempt got a 429 whose header parses as a
\* positive integer, and 2^(a+1) seconds in every other case.
C7_WaitIsRetryAfterOrBackoff ==
    (rpc = "loop" /\ lastOutcome # NoOutcome /\ attempt - 1 < 3) =>
        IF KindOf(lastOutcome) = "429" /\ ParsesAsPositive(lastOutcome.retryAfter)
        THEN IsHeaderSeconds(waitTime, lastOutcome.retryAfter)
        ELSE waitTime = Seconds(2^attempt)

\* C8: an attempt that receives a status that is neither 2xx nor 429 is the
\* last attempt of the call, which returns the API error with that status and
\* body; every earlier attempt was followed by one wait, this one by none.
C8_OtherStatusFailsAtOnce ==
    \A i \in 1..Len(kinds) :
        kinds[i] = "other" =>
            /\ i = Len(kinds)
            /\ rpc = "done"
            /\ result.err = "API returned status"
            /\ result.status = lastOutcome.status
            /\ result.body = lastOutcome.body
            /\ sleeps = i - 1

\* C8 witness: the third attempt got such a status after a transport failure
\* and a 429
C8_Witness ==
    /\ Len(kinds) = 3
    /\ kinds[3] = "other"
    /\ {"connErr", "429"} \subseteq Range(kinds)
    /\ rpc = "done"

\* C9: when attempt index 3 receives a 429 the call returns the rate-limit
\* error with the body of that response, not the max-retries error.
C9_LastAttemptRateLimited ==
    (Len(kinds) = 4 /\ kinds[4] = "429") =>
        /\ rpc = "done"
        /\ result.err = "rate limit max retries exceeded"
        /\ result.err # "max retries exceeded"
        /\ result.body = lastOutcome.body

\* C9 witness: the fourth attempt got a 429 after transport failures
C9_Witness ==
    /\ Len(kinds) = 4
    /\ kinds[4] = "429"
    /\ kinds[1] = "connErr" /\ kinds[2] = "readErr"
    /\ rpc = "done"

\* C10: the max-retries error is returned only when the fourth attempt failed
\* at transport level, and it wraps the error of that failure, never nil.
C10_MaxRetriesWrapsLastCause ==
    (rpc = "done" /\ result.err = "max retries exceeded") =>
        /\ Len(kinds) = 4
        /\ kinds[4] \in {"connErr", "readErr"}
        /\ result.cause # NilErr
        /\ result.cause = IF lastOutcome.kind = "connErr"
                          THEN RequestFailed(lastOutcome.cause)
                          ELSE ReadFailed(lastOutcome.cause)

\* C10 witness: max retries exceeded after a 429 and a transport failure with
\* a different cause on earlier attempts
C10_Witness ==
    /\ rpc = "done"
    /\ result.err = "max retries exceeded"
    /\ "429" \in Range(kinds)
    /\ lastErr.msg = "failed to read response body"
    /\ kinds[1] = "connErr"

\* C11: an attempt that receives a 2xx response is the last attempt of the
\* call, it has an index of at most 3, the call returns success with the body
\* of that response, and no wait follows it (each earlier attempt was
\* followed by one).
C11_SuccessReturnsBodyAtOnce ==
    \A i \in 1..Len(kinds) :
        kinds[i] = "2xx" =>
            /\ i = Len(kinds) /\ i - 1 <= 3
            /\ \A j \in 1..(i - 1) : kinds[j] \in {"connErr", "readErr", "429"}
            /\ rpc = "done"
            /\ result = Success(lastOutcome.body)
            /\ sleeps = i - 1

\* C11 witness: the attempt with index 3 got a 2xx with a status other than
\* 200 after a transport failure and a 429
C11_Witness ==
    /\ Len(kinds) = 4
    /\ kinds[4] = "2xx" /\ lastOutcome.status # 200
    /\ {"connErr", "429"} \subseteq Range(kinds)
    /\ rpc = "done"


(***************************************************************************)
(* Properties of the cache (SpecCache)                                     *)
(***************************************************************************)
SpecCache == Init /\ [][NextCache]_vars

\* C5 (as claimed): after a WriteIssue call that returned success, Exists is
\* true of the key of the issue written.
C5_ExistsAfterWrite ==
    (lastWrite.called /\ lastWrite.err = Nil) => Exists(lastWrite.issue.Key)

\* C6 (as claimed): every id whose last write succeeded reads back by id, and
\* a key that reads back gives the envelope that GetIssueByID gives for the
\* issue most recently written under that key.
C6_ByKeyResolvesToCurrentRecord ==
    /\ \A id \in okIds : GetIssueByID(id).err = Nil
    /\ \A key \in Keys :
          (latest[key] # NoLink /\ GetIssue(key).err = Nil) =>
              GetIssue(key) = GetIssueByID(latest[key])

\* C17: a WriteIssue call returns nil exactly when os.WriteFile wrote the
\* by_id file; then by_id/<id>.json holds the envelope of this call and
\* GetIssueByID reads it back, whether or not the entry under by_key was
\* made; a failure of os.Remove or os.Symlink never gives an error.
C17_SuccessIffByIdWritten ==
    [][\A issue \in Issues, d \in Durations, fs \in FsOutcomes :
          CallWriteIssue(issue, d, fs) =>
              LET wrote == dirs.by_id /\ fs.write = "ok"
                  envelope == CachedIssue(issue, d, clock)
              IN  /\ lastWrite'.err = Nil <=> wrote
                  /\ wrote =>
                        /\ by_id'[issue.ID] = JSONFile(MarshalIndent(envelope))
                        /\ GetIssueByID(issue.ID)' = [err |-> Nil, cached |-> envelope]
                  /\ (wrote /\ fs.symlink = "fail") => lastWrite'.err = Nil]_vars

\* a call returned nil and left no entry under by_key for its key; the file
\* under by_id is the document of that issue
C17_Witness ==
    /\ lastWrite.called /\ lastWrite.err = Nil
    /\ by_key[lastWrite.issue.Key] = NoLink
    /\ by_id[lastWrite.issue.ID].state = "json"
    /\ GetIssueByID(lastWrite.issue.ID).err = Nil
    /\ GetIssueByID(lastWrite.issue.ID).cached.JiraData = lastWrite.issue

\* C18 (as claimed): no step removes an entry of the cache: a file that
\* exists under by_id exists after the step, and a key for which Exists holds
\* still has it after the step.
C18_NoEntryDeleted ==
    [][/\ \A id \in Ids : by_id[id] # AbsentFile => by_id'[id] # AbsentFile
       /\ \A key \in Keys : Exists(key) => Exists(key)']_vars

\* the FetchedAt of the envelope stored under an id
StoredFetchedAt(id) == GetIssueByID(id).cached.CacheMetadata.FetchedAt

\* C22 (as claimed): a WriteIssue call that returns nil stores the time of
\* the call as FetchedAt, and when the file of the id already held an
\* envelope written with success for the same key, the new FetchedAt is
\* greater than the one it replaces.
C22_FetchedAtFreshAndIncreasing ==
    [][\A issue \in Issues, d \in Durations, fs \in FsOutcomes :
          (CallWriteIssue(issue, d, fs) /\ lastWrite'.err = Nil) =>
              /\ StoredFetchedAt(issue.ID)' = clock
              /\ ( /\ GetIssueByID(issue.ID).err = Nil
                    /\ GetIssueByID(issue.ID).cached.JiraData.Key = issue.Key ) =>
                      StoredFetchedAt(issue.ID)' > StoredFetchedAt(issue.ID)]_vars

\* C24 (as claimed): a key that reads back gives an envelope of an issue
\* with that key, and Exists holds only of keys that are the key of the
\* issue in some file under by_id.
C24_NoStaleKeyEntry ==
    \A key \in Keys :
        /\ GetIssue(key).err = Nil => GetIssue(key).cached.JiraData.Key = key
        /\ Exists(key) =>
              \E id \in Ids : /\ GetIssueByID(id).err = Nil
                              /\ GetIssueByID(id).cached.JiraData.Key = key

\* the positions of the keys of a project in a list, and the k-th of them
ProjectPositions(keys, project) ==
    {i \in 1..Len(keys) : HasPrefix(keys[i], project \o <<"-">>)}

Kth(positions, k) ==
    CHOOSE i \in positions : Cardinality({j \in positions : j < i}) = k - 1

\* C15: when the directory can be read, ListIssuesForProject(p) returns the
\* keys of ListIssues() that start with p followed by "-", all of them, and
\* in the order ListIssues gives them; a listed key AX-1 is not returned for
\* the project A. When it cannot be read both return the same error.
C15_ProjectListingIsPrefixFilter ==
    \A project \in Projects :
        LET all == ListIssues(TRUE).keys
            got == ListIssuesForProject(project, TRUE)
            pos == ProjectPositions(all, project)
        IN  /\ got.err = Nil
            /\ ListIssuesForProject(project, FALSE).err = ListIssues(FALSE).err
            /\ Len(got.keys) = Cardinality(pos)
            /\ \A k \in 1..Len(got.keys) : got.keys[k] = all[Kth(pos, k)]
            /\ project = <<"A">> =>
                  \A k \in 1..Len(got.keys) : got.keys[k] # <<"A", "X", "-", "1">>

\* AX-1 and a key of project A are both listed, the listing of A has only
\* the latter
C15_Witness ==
    /\ \E i \in 1..Len(ListIssues(TRUE).keys) :
          ListIssues(TRUE).keys[i] = <<"A", "X", "-", "1">>
    /\ ListIssuesForProject(<<"A">>, TRUE).keys = <<(<<"A", "-", "2">>)>>
    /\ ListIssuesForProject(<<"A", "X">>, TRUE).keys = <<(<<"A", "X", "-", "1">>)>>

(***************************************************************************)
(* Properties of ScrapeProject (SpecScrape)                                *)
(***************************************************************************)
\* ... and the cache has been initialized
InitReady == InitReq /\ InitCacheReady /\ InitScrape

SpecScrape == InitReady /\ [][NextScrape]_vars

FetchFailures == Len(fetched) - res.APICalls
WriteFailures == failures - FetchFailures

\* C3: in the fetch phase every failure of GetIssueWithHistory or WriteIssue is
\* counted in Errors and the loop goes on: the keys before the loop position
\* have all been attempted, and the run returns a summary with every to-fetch
\* key attempted and the failures counted.
C3_FailuresCountedRunContinues ==
    /\ spc = "fetch" => (fetched = SubSeq(toFetch, 1, idx - 1) /\ res.Errors = failures)
    /\ (spc = "done" /\ ~searchErr) =>
          /\ ret.returned /\ ret.err = Nil /\ ~ret.result.isNil
          /\ fetched = toFetch
          /\ ret.result.summary.Errors = failures

\* a run that returned its summary after a fetch failure and a write failure
C3_Witness ==
    /\ spc = "done" /\ ret.err = Nil /\ ~ret.result.isNil
    /\ FetchFailures >= 1 /\ WriteFailures >= 1
    /\ ret.result.summary.Errors >= 2

\* C4: once a Search call of the run has failed, ScrapeProject has returned an
\* error and a nil summary, GetAllIssuesInProject has returned no key, nothing
\* was planned, GetIssueWithHistory and WriteIssue were not called.
C4_EnumerationFailureAborts ==
    searchErr =>
        /\ spc = "done" /\ ret.returned
        /\ ret.err # Nil /\ ret.result.isNil
        /\ issueKeys = <<>> /\ toFetch = <<>>
        /\ fetched = <<>> /\ runWrites = 0
        /\ \A key \in Keys : Exists(key) <=> key \in existsAtStart

\* the Search of a later page failed, a first page of keys had been collected
C4_Witness ==
    /\ searchErr /\ searches >= 2 /\ Len(allKeys) >= 1
    /\ ret.err # Nil

\* the keys of a list are those of different issues
DistinctIssues(keys) ==
    \A i, j \in 1..Len(keys) :
        i # j => (keys[i] # keys[j] /\ ServerIssue(keys[i]).ID # ServerIssue(keys[j]).ID)

\* the GetIssueWithHistory calls of the run that returned an error: those no
\* WriteIssue call follows
FailedFetchCalls ==
    Cardinality({i \in 1..Len(events) :
                    /\ events[i].op = "GetIssueWithHistory"
                    /\ (i = Len(events) \/ events[i + 1].op # "WriteIssue")})

\* the ids that have a file under by_id
IssueFiles == {id \in Ids : by_id[id] # AbsentFile}

\* C14: an incremental run that started on a cache with no file and no link,
\* enumerated n keys of different issues and had no WriteIssue fail, returns
\* a summary with IssuesProcessed = n, CacheHits = 0, Errors = f and
\* APICalls = n - f, where f is the number of failed GetIssueWithHistory
\* calls, and leaves exactly n - f files under by_id, each a whole document.
C14_EmptyCacheIncrementalSummary ==
    ( /\ ~config.FullSync /\ spc = "done" /\ ~searchErr
      /\ existsAtStart = {} /\ filesAtStart = {}
      /\ DistinctIssues(issueKeys)
      /\ failures = FailedFetchCalls ) =>
        LET n == Len(issueKeys)
            f == FailedFetchCalls
        IN  /\ ret.returned /\ ret.err = Nil /\ ~ret.result.isNil
            /\ Len(fetched) = n
            /\ ret.result.summary =
                  [IssuesProcessed |-> n, APICalls |-> n - f, CacheHits |-> 0,
                   Errors |-> f]
            /\ Cardinality(IssueFiles) = n - f
            /\ \A id \in IssueFiles : by_id[id].state = "json"

\* two issues enumerated on the empty cache, one fetch failed, one was written
C14_Witness ==
    /\ ~config.FullSync /\ spc = "done" /\ ~searchErr
    /\ existsAtStart = {} /\ filesAtStart = {}
    /\ DistinctIssues(issueKeys) /\ Len(issueKeys) = 2
    /\ failures = FailedFetchCalls /\ FailedFetchCalls = 1
    /\ runWrites = 1
    /\ ret.result.summary.APICalls = 1
    /\ Cardinality(IssueFiles) = 1

\* the positions of the GetIssueWithHistory calls in events
FetchPositions == {i \in 1..Len(events) : events[i].op = "GetIssueWithHistory"}

\* the keys passed to the calls of an operation, in order
RECURSIVE CallKeys(_, _)
CallKeys(i, op) ==
    IF i = 0 THEN <<>>
    ELSE IF events[i].op = op THEN Append(CallKeys(i - 1, op), events[i].key)
    ELSE CallKeys(i - 1, op)

\* the enumerated keys the plan keeps, in the order of the enumeration
RECURSIVE Kept(_)
Kept(i) ==
    IF i = 0 THEN <<>>
    ELSE IF config.FullSync \/ issueKeys[i] \notin existsAtStart
         THEN Append(Kept(i - 1), issueKeys[i])
         ELSE Kept(i - 1)

\* C20 (as claimed): between any two GetIssueWithHistory calls of a run
\* there is a 500 ms sleep.
C20_DelayBetweenFetches ==
    \A i \in FetchPositions, j \in FetchPositions :
        i < j => \E p \in (i + 1)..(j - 1) : events[p] = Pause

\* C19: in the fetch phase of a run the keys passed to GetIssueWithHistory
\* are the first keys of the to-fetch list, which follows the order of the
\* enumeration; every WriteIssue call comes directly after the
\* GetIssueWithHistory call of its key, so before the call for the next
\* key; a run that returns has fetched the whole list.
C19_FetchWriteInEnumerationOrder ==
    (spc \in {"fetch", "done"} /\ ~searchErr) =>
        LET calls == CallKeys(Len(events), "GetIssueWithHistory")
        IN  /\ toFetch = Kept(Len(issueKeys))
            /\ Len(calls) = idx - 1
            /\ calls = SubSeq(toFetch, 1, Len(calls))
            /\ spc = "done" => calls = toFetch
            /\ Cardinality({i \in 1..Len(events) : events[i].op = "WriteIssue"}) = runWrites
            /\ \A i \in 1..Len(events) :
                  events[i].op = "WriteIssue" =>
                      (i > 1 /\ events[i - 1] = Fetch(events[i].key))

\* two different keys were fetched and written one after the other
C19_Witness ==
    /\ spc = "done" /\ Len(toFetch) = 2 /\ toFetch[1] # toFetch[2]
    /\ \E i, j \in 1..Len(events) :
          /\ i + 1 < j /\ j < Len(events)
          /\ events[i] = Fetch(toFetch[1]) /\ events[i + 1] = Write(toFetch[1])
          /\ events[j] = Fetch(toFetch[2]) /\ events[j + 1] = Write(toFetch[2])

\* C21 (as claimed): in a run no key is passed to GetIssueWithHistory more
\* than once, whatever the sync mode and also when the enumeration returned
\* a key more than once.
C21_AtMostOneFetchPerKey ==
    \A i, j \in 1..Len(fetched) : i # j => fetched[i] # fetched[j]

(***************************************************************************)
(* Properties of GetAllIssuesInProject and SetBatchSize (SpecEnum)         *)
(***************************************************************************)
SpecEnum == Init /\ [][NextEnum]_vars

\* C12: with a limit N > 0 GetAllIssuesInProject never holds more than N
\* keys, returns at most N, and every Search it issued started with fewer
\* than N keys accumulated; once N is reached it is no longer enumerating.
C12_LimitBoundsKeysAndPages ==
    config.Limit > 0 =>
        /\ Len(allKeys) <= config.Limit
        /\ Len(issueKeys) <= config.Limit
        /\ Len(allKeys) >= config.Limit => spc # "enumerate"
        /\ \A i \in 1..Len(searchLog) : searchLog[i].startAt < config.Limit

\* C12 witness: the limit was reached in the middle of the second page, with
\* a total that announces more
C12_Witness ==
    /\ config.Limit = 2 /\ spc = "plan"
    /\ Len(searchLog) = 2
    /\ Len(issueKeys) = 2
    /\ searchLog[2].startAt + Len(searchLog[2].issues) > 2
    /\ searchLog[2].total > 3

\* the keys of the first n logged pages, one after the other
RECURSIVE Collected(_)
Collected(n) == IF n = 0 THEN <<>> ELSE Collected(n - 1) \o searchLog[n].issues

\* the logged answer e reaches the total it reports
ReachesTotal(e) == e.startAt + Len(e.issues) >= e.total

\* the server lists for a project
ServerLists == UNION {[1..m -> ProjectKeys] : m \in 0..MaxEnum}

\* every logged answer is the slice at its offset, of at most maxResults keys,
\* of the one list, with the length of the list as its total
AnswersFrom(list) ==
    \A i \in 1..Len(searchLog) :
        LET e == searchLog[i]
        IN  /\ e.total = Len(list)
            /\ Len(e.issues) <= e.maxResults
            /\ e.startAt + Len(e.issues) <= Len(list)
            /\ e.issues = SubSeq(list, e.startAt + 1, e.startAt + Len(e.issues))

\* C13: without a limit every Search starts at the number of keys collected
\* so far; the enumeration goes on after an answer that does not reach the
\* total it reports and returns after the first one that does; when all the
\* answers are slices of one unchanging list, the keys returned are that
\* list, each entry once and in order.
C13_UnlimitedEnumerationPaginatesToTotal ==
    config.Limit <= 0 =>
        /\ \A i \in 1..Len(searchLog) :
              /\ searchLog[i].startAt = Len(Collected(i - 1))
              /\ i < Len(searchLog) => ~ReachesTotal(searchLog[i])
        /\ allKeys = Collected(Len(searchLog))
        /\ Len(searchLog) >= 1 =>
              (ReachesTotal(searchLog[Len(searchLog)]) <=> spc = "plan")
        /\ spc = "plan" =>
              /\ issueKeys = allKeys
              /\ \A list \in ServerLists : AnswersFrom(list) => issueKeys = list

\* C13 witness: a list of two different keys was returned after two pages of
\* one key each, with a negative limit
C13_Witness ==
    /\ config.Limit < 0 /\ spc = "plan"
    /\ Len(searchLog) = 2
    /\ Len(issueKeys) = 2 /\ issueKeys[1] # issueKeys[2]
    /\ AnswersFrom(issueKeys)

\* C16: the batch size of a client is always within 1..100; a SetBatchSize
\* call with a size in that range makes it the batch size, a call with any
\* other size (0, negative, above 100) leaves the batch size as it was.
C16_BatchSizeStaysInRange ==
    /\ [](batchSize \in 1..MaxBatchSize)
    /\ [][\A size \in AllBatchSizes :
             SetBatchSize(size) =>
                 /\ size \in 1..MaxBatchSize => batchSize' = size
                 /\ size \notin 1..MaxBatchSize => batchSize' = batchSize]_vars

\* the largest size was set on a client constructed with the default, and a
\* Search was made with it
C16_Witness ==
    /\ batchSize = MaxBatchSize
    /\ batchSize # DefaultBatchSize
    /\ Len(searchLog) >= 1 /\ searchLog[1].maxResults = MaxBatchSize

\* every Search call returns and every sleep ends
SpecEnumLive ==
    Init /\ [][NextEnumLive]_vars /\ WF_vars(SearchReturns) /\ WF_vars(PaginationSleep)

\* C23 (as claimed): when every Search call returns, an enumeration that has
\* started comes to its end, whatever pages and totals the server answers.
C23_EnumerationTerminates ==
    (spc = "enumerate") ~> (spc \in {"plan", "done"})

(***************************************************************************)
(* Properties of ScrapeProject and ScrapeIssue together (SpecIssue)        *)
(***************************************************************************)
SpecIssue == InitReady /\ [][NextIssue]_vars

\* the files under by_id are as before, except that the one of id may have
\* been left cut short
OnlyCutShort(id) ==
    \A other \in Ids :
        \/ by_id'[other] = by_id[other]
        \/ other = id /\ by_id'[other] = PartialFile

====
